---------------------------- MODULE Spec2Model ----------------------------
(***************************************************************************)
(* Model of the terminal typing test (src/main.go): the keyboard loop of   *)
(* main, the keystroke handlers, the incremental renderer, the replay      *)
(* ("ghost") goroutines and the SIGWINCH resize goroutine, all sharing the *)
(* package-level state guarded by stateMu.                                 *)
(*                                                                         *)
(* Go slices are 0-indexed, TLA+ sequences 1-indexed: sample[i] of the     *)
(* code is At(i) == sample[i + 1] here.  Runes and bytes are integers.     *)
(***************************************************************************)
EXTENDS Integers, Sequences, FiniteSets, TLC

(***************************************************************************)
(* Bounds of the model.                                                    *)
(***************************************************************************)
MaxWidth == 2      \* terminal widths reported by a successful query: 1..MaxWidth
MaxMs == 1         \* a measured per-character duration is in 1..MaxMs
MaxDup == 1        \* cap on the duplicate entries of the typos slice
MaxElapsed == 2    \* the total duration of a run is in 0..MaxElapsed
PriorBest == 1     \* the PersonalBest of the saved sample when it has one
MaxCells == 4      \* length of the sample of the resize-only sessions

(***************************************************************************)
(* Program constants: the bytes and runes the code names.                  *)
(***************************************************************************)
KeyBackspace == 127
KeyCtrlBackspace == 23
KeyCtrlShiftBackspace == 8
KeyCtrlC == 3
KeyCR == 13
KeyLF == 10
KeyEsc == 27
Space == 32
RuneError == 65533

\* Characters of the samples and further keys of the keyboard.
ChA == 97          \* 'a'
ChX == 120         \* 'x', never part of a sample
ChEacute == 233    \* U+00E9, encoded as the two bytes LeadByte ContByte
LeadByte == 195
ContByte == 169

\* The samples a session is run on (savedSamples[0].Text as runes).
KeySamples ==
    { <<ChA, ChA>>,
      <<ChA, Space, ChA>>,
      <<Space, ChA, Space>>,
      <<ChA, Space, Space>>,
      <<ChA, KeyLF, ChA>>,
      <<KeyLF, ChA>>,
      <<ChEacute, ChA>>,
      <<ChA, ChEacute>> }
Samples == { <<ChA, Space>> }

\* The bytes os.Stdin.Read can deliver.  The terminal sends a lead byte
\* together with its continuation byte (NextBytes); a continuation byte can
\* also arrive on its own.
Bytes ==
    { ChA, ChX, Space, KeyLF, KeyCR, KeyBackspace, KeyCtrlBackspace,
      KeyCtrlShiftBackspace, KeyCtrlC, KeyEsc, LeadByte, ContByte }

NextBytes(buf) == IF buf = << LeadByte >> THEN { ContByte } ELSE Bytes

Widths == 1..MaxWidth

Nil == "nil"

VARIABLES
    sample,            \* state.sample
    typedIndex,        \* state.typedIndex
    ghostIndex,        \* state.ghostIndex
    typos,             \* state.typos, a slice (sequence), not a set
    hasPb,             \* hasPb
    charTimes,         \* savedSamples[0].CharTimes
    personalBest,      \* savedSamples[0].PersonalBest
    typeRow, typeCol,  \* mirrored coordinate of the typed cursor
    ghostRow, ghostCol,\* mirrored coordinate of the ghost cursor
    terminalWidth,     \* terminalWidth
    lockHolder,        \* who holds stateMu: "none", "main", "ghost", "resize"
    mainPc,            \* position of main
    inputBuf,          \* inputBuf of main
    firstTypedChar,    \* firstTypedChar of main
    currentCharTimes,  \* currentCharTimes of main
    elapsed,           \* elapsed of main
    isPB,              \* isPB returned by updatePersonalBest
    ghostPc,           \* position of the goroutine of ghostAnimation
    ghostI,            \* i of ghostAnimation
    renderPc,          \* position of the goroutine of startGhostAnimation
    newGhostIndex,     \* the value received from ghostChan
    resizePc,          \* position of the goroutine of setupResizeListener
    sigPending,        \* number of signals buffered in sigs (capacity 1)
    oldTerminalWidth,  \* oldTerminalWidth of render "resize"
    exitKind,          \* "none" while running, else how the process ended
    restoreCount,      \* calls of term.Restore so far
    lastKind,          \* handler that served the last keystroke
    lastPos,           \* typedIndex when that handler was entered
    lastWrite,         \* position of currentCharTimes it wrote, or -1
    cursor,            \* the terminal: << row, column >> of its cursor
    savedCursor        \* the terminal: the position saved by ESC 7

vars ==
    << sample, typedIndex, ghostIndex, typos, hasPb, charTimes, personalBest,
       typeRow, typeCol, ghostRow, ghostCol, terminalWidth, lockHolder,
       mainPc, inputBuf, firstTypedChar, currentCharTimes, elapsed,
       isPB, ghostPc, ghostI, renderPc, newGhostIndex, resizePc, sigPending,
       oldTerminalWidth, exitKind, restoreCount, lastKind, lastPos,
       lastWrite, cursor, savedCursor >>

mainVars ==
    << mainPc, inputBuf, firstTypedChar, currentCharTimes, elapsed,
       isPB, lastKind, lastPos, lastWrite >>
typedVars == << typedIndex, typos, typeRow, typeCol >>
ghostVars == << ghostPc, ghostI, renderPc, newGhostIndex >>
resizeVars == << resizePc, sigPending, oldTerminalWidth >>
fileVars == << sample, hasPb, charTimes, personalBest >>
termVars == << cursor, savedCursor >>

(***************************************************************************)
(* Helpers for Go slices.                                                  *)
(***************************************************************************)
N == Len(sample)
At(i) == sample[i + 1]
InRange(i) == i >= 0 /\ i < N

Contains(s, x) == \E k \in 1..Len(s) : s[k] = x
Index(s, x) == CHOOSE k \in 1..Len(s) : s[k] = x /\ \A j \in 1..(k - 1) : s[j] # x
Delete(s, k) == SubSeq(s, 1, k - 1) \o SubSeq(s, k + 1, Len(s))
Elems(s) == { s[k] : k \in 1..Len(s) }

(***************************************************************************)
(* utf8.DecodeRune on the bytes the keyboard can deliver: one-byte runes   *)
(* and two-byte sequences.  A lead byte without its continuation byte, a   *)
(* lead byte followed by anything else and a stray continuation byte all   *)
(* decode to (RuneError, 1).                                               *)
(***************************************************************************)
DecodeRune(buf) ==
    LET b0 == buf[1] IN
    IF b0 < 128 THEN [r |-> b0, size |-> 1]
    ELSE IF b0 \in 194..223 /\ Len(buf) >= 2 /\ buf[2] \in 128..191
         THEN [r |-> (b0 - 192) * 64 + (buf[2] - 128), size |-> 2]
         ELSE [r |-> RuneError, size |-> 1]

\* The bytes of a buffer DecodeRune above looks at: the first, and the second
\* after a lead byte.
Looked(buf) ==
    IF buf[1] \in 194..223 /\ Len(buf) >= 2 THEN SubSeq(buf, 1, 2)
    ELSE SubSeq(buf, 1, 1)

\* readRune after a successful one-byte read of b: the rune returned and the
\* buffer left behind.  On (RuneError, 1) the bytes stay in the buffer; the
\* model keeps the bytes DecodeRune looks at (those behind them are never
\* reached, as the buffer is only ever cut when a rune decodes).
readRune(buf, b) ==
    LET nb == Append(buf, b)
        d == DecodeRune(nb)
    IN  IF d.r = RuneError /\ d.size = 1
        THEN [r |-> RuneError, buf |-> Looked(nb)]
        ELSE [r |-> d.r, buf |-> SubSeq(nb, d.size + 1, Len(nb))]

(***************************************************************************)
(* The keystroke handlers, as functions on the part of the state the       *)
(* keyboard loop owns:                                                     *)
(*   s.typedIndex, s.typos, s.typeRow, s.typeCol   the program's variables *)
(*   s.times                                       currentCharTimes        *)
(*   s.kind, s.wrote                               which handler ran, and  *)
(*                                                 the slot it wrote (-1)  *)
(*   s.bad                                         the sample was indexed  *)
(*                                                 out of range (a panic)  *)
(*   s.cursor                                      the terminal's cursor   *)
(* Each handler includes the render call it ends with.                     *)
(***************************************************************************)
\* An access sample[i].
Touch(s, i) == IF InRange(i) THEN s ELSE [s EXCEPT !.bad = TRUE]

\* The terminal, as wide as terminalWidth says.  Printing a character moves
\* the cursor one column right, except in the last column, where it stays
\* with the wrap pending; ESC [ D moves it one column left, not past column
\* 0; ESC [ r ; c H places it.
PrintChar(c) == IF c[2] < terminalWidth - 1 THEN << c[1], c[2] + 1 >> ELSE c
CursorLeft(c) == IF c[2] > 0 THEN << c[1], c[2] - 1 >> ELSE c
CursorTo(row, col) == << row, col >>

\* render(newIndex, "typedIncreased") with newIndex = s.typedIndex: the paint
\* of sample[newIndex-1] and the coordinate update.
renderTypedIncreased(s) ==
    LET s1 == [Touch(s, s.typedIndex - 1) EXCEPT !.cursor = PrintChar(@)]
    IN  IF s1.typeCol = terminalWidth - 1
        THEN [s1 EXCEPT !.typeCol = 0, !.typeRow = @ + 1,
                        !.cursor = CursorTo(s1.typeRow + 1, 0)]
        ELSE [s1 EXCEPT !.typeCol = @ + 1]

\* render "typedDecreased" staying in column 0 of a lower row.
renderTypedDecreased_NoUnwrap(s) ==
    IF s.typeCol # 0
    THEN [Touch(s, s.typedIndex) EXCEPT
             !.typeCol = @ - 1,
             !.cursor = CursorLeft(PrintChar(CursorLeft(@)))]
    ELSE s

\* render(newIndex, "typedDecreased") with newIndex = s.typedIndex: the paint
\* of sample[newIndex] and the coordinate update.
renderTypedDecreased(s) ==
    IF s.typeCol # 0
    THEN [Touch(s, s.typedIndex) EXCEPT
             !.typeCol = @ - 1,
             !.cursor = CursorLeft(PrintChar(CursorLeft(@)))]
    ELSE IF s.typeRow # 0
         THEN [Touch(s, s.typedIndex) EXCEPT
                  !.typeCol = terminalWidth - 1,
                  !.typeRow = @ - 1,
                  !.cursor = CursorTo(s.typeRow - 1, terminalWidth - 1)]
         ELSE s

\* matchBody recording the duration whatever the typos are.
matchBody_AlwaysRecords(ms, s) ==
    LET s1 == IF Contains(s.typos, s.typedIndex)
              THEN [s EXCEPT !.typos = Delete(@, Index(@, s.typedIndex))]
              ELSE s
        s2 == [s1 EXCEPT !.times[s.typedIndex + 1] = ms,
                         !.wrote = s.typedIndex]
    IN  renderTypedIncreased([s2 EXCEPT !.typedIndex = @ + 1])

\* The part handleCorrectInput and the matching branch of handleNewLine share.
matchBody(ms, s) ==
    LET s1 == IF Contains(s.typos, s.typedIndex)
              THEN [s EXCEPT !.typos = Delete(@, Index(@, s.typedIndex))]
              ELSE s
        s2 == IF Len(s1.typos) = 0
              THEN [s1 EXCEPT !.times[s.typedIndex + 1] = ms,
                              !.wrote = s.typedIndex]
              ELSE s1
    IN  renderTypedIncreased([s2 EXCEPT !.typedIndex = @ + 1])

handleCorrectInput(ms, s) ==
    [matchBody(ms, s) EXCEPT !.kind = "correct"]

handleBackspace(s) ==
    IF s.typedIndex > 0
    THEN renderTypedDecreased([s EXCEPT !.typedIndex = @ - 1, !.kind = "backspace"])
    ELSE [s EXCEPT !.kind = "backspace"]

\* The do-while loop of handleCtrlBackspace: one pass, then the test.
RECURSIVE ctrlBackspaceLoop(_)
ctrlBackspaceLoop(s) ==
    LET s1 == renderTypedDecreased([s EXCEPT !.typedIndex = @ - 1])
    IN  IF s1.typedIndex > 0
        THEN IF ~InRange(s1.typedIndex - 1) THEN [s1 EXCEPT !.bad = TRUE]
             ELSE IF At(s1.typedIndex - 1) # Space THEN ctrlBackspaceLoop(s1)
             ELSE s1
        ELSE s1

\* handleCtrlBackspace with a while loop in place of the do-while loop.
RECURSIVE handleCtrlBackspace_While(_)
handleCtrlBackspace_While(s) ==
    IF s.typedIndex > 0 /\ At(s.typedIndex - 1) # Space
    THEN handleCtrlBackspace_While(
             renderTypedDecreased([s EXCEPT !.typedIndex = @ - 1]))
    ELSE [s EXCEPT !.kind = "ctrlBackspace"]

handleCtrlBackspace(s) ==
    IF s.typedIndex > 0
    THEN [ctrlBackspaceLoop(s) EXCEPT !.kind = "ctrlBackspace"]
    ELSE [s EXCEPT !.kind = "ctrlBackspace"]

RECURSIVE handleCtrlShiftBackspace(_)
handleCtrlShiftBackspace(s) ==
    IF s.typedIndex > 0
    THEN handleCtrlShiftBackspace(
             renderTypedDecreased([s EXCEPT !.typedIndex = @ - 1]))
    ELSE [s EXCEPT !.kind = "ctrlShiftBackspace"]

\* handleNewLine ignoring a line terminator the sample does not expect.
handleNewLine_IgnoresMismatch(ms, s) ==
    IF At(s.typedIndex) = KeyLF
    THEN [matchBody(ms, s) EXCEPT !.kind = "newlineMatch"]
    ELSE [s EXCEPT !.kind = "newlineTypo"]

handleNewLine(ms, s) ==
    IF At(s.typedIndex) = KeyLF
    THEN [matchBody(ms, s) EXCEPT !.kind = "newlineMatch"]
    ELSE renderTypedIncreased(
             [s EXCEPT !.typos = Append(@, s.typedIndex),
                       !.typedIndex = @ + 1,
                       !.kind = "newlineTypo"])

\* handleTypo recording the position after the increment.
handleTypo_IncrementFirst(s) ==
    LET s1 == [s EXCEPT !.typedIndex = @ + 1]
        s2 == IF ~Contains(s1.typos, s1.typedIndex)
              THEN [s1 EXCEPT !.typos = Append(@, s1.typedIndex)]
              ELSE s1
    IN  renderTypedIncreased([s2 EXCEPT !.kind = "typo"])

handleTypo(s) ==
    LET s1 == IF ~Contains(s.typos, s.typedIndex)
              THEN [s EXCEPT !.typos = Append(@, s.typedIndex)]
              ELSE s
    IN  renderTypedIncreased([s1 EXCEPT !.typedIndex = @ + 1, !.kind = "typo"])

\* handleInput serving Esc as an erase of one position.
handleInput_EscErases(r, ms, s) ==
    IF r = At(s.typedIndex) THEN handleCorrectInput(ms, s)
    ELSE IF r = KeyBackspace THEN handleBackspace(s)
    ELSE IF r = KeyCtrlBackspace THEN handleCtrlBackspace(s)
    ELSE IF r = KeyCtrlShiftBackspace THEN handleCtrlShiftBackspace(s)
    ELSE IF r = KeyCtrlC THEN [s EXCEPT !.kind = "ctrlC"]
    ELSE IF r \in {KeyCR, KeyLF} THEN handleNewLine(ms, s)
    ELSE IF r = KeyEsc THEN [handleBackspace(s) EXCEPT !.kind = "esc"]
    ELSE handleTypo(s)

\* The switch of handleInput: the cases are tried in order.
handleInput(r, ms, s) ==
    IF r = At(s.typedIndex) THEN handleCorrectInput(ms, s)
    ELSE IF r = KeyBackspace THEN handleBackspace(s)
    ELSE IF r = KeyCtrlBackspace THEN handleCtrlBackspace(s)
    ELSE IF r = KeyCtrlShiftBackspace THEN handleCtrlShiftBackspace(s)
    ELSE IF r = KeyCtrlC THEN [s EXCEPT !.kind = "ctrlC"]
    ELSE IF r \in {KeyCR, KeyLF} THEN handleNewLine(ms, s)
    ELSE IF r = KeyEsc THEN [s EXCEPT !.kind = "esc"]
    ELSE handleTypo(s)

(***************************************************************************)
(* Initial state: main has loaded the sample, run initializeState and      *)
(* setupTerminal (raw mode is on), painted the sample, copied CharTimes    *)
(* into currentCharTimes and started the resize listener; it stands at the *)
(* first test of the keyboard loop.  A saved sample either has no          *)
(* CharTimes or one per character, as saveSamples leaves it.               *)
(***************************************************************************)
InitWith(samples, prior) ==
    /\ sample \in samples
    /\ hasPb \in prior
    /\ charTimes = [i \in 1..Len(sample) |-> IF hasPb THEN MaxMs ELSE 0]
    /\ personalBest = IF hasPb THEN PriorBest ELSE 0
    /\ typedIndex = 0
    /\ ghostIndex = 0
    /\ typos = << >>
    /\ typeRow = 0 /\ typeCol = 0 /\ ghostRow = 0 /\ ghostCol = 0
    /\ terminalWidth \in Widths
    /\ lockHolder = "none"
    /\ mainPc = "test"
    /\ inputBuf = << >>
    /\ firstTypedChar = TRUE
    /\ currentCharTimes = charTimes
    /\ elapsed = 0
    /\ isPB = FALSE
    /\ ghostPc = "idle"
    /\ ghostI = 0
    /\ renderPc = "idle"
    /\ newGhostIndex = 0
    /\ resizePc = "wait"
    /\ sigPending = 0
    /\ oldTerminalWidth = 0
    /\ exitKind = "none"
    /\ restoreCount = 0
    /\ lastKind = "none"
    /\ lastPos = 0
    /\ lastWrite = -1
    /\ cursor = CursorTo(0, 0)
    /\ savedCursor = CursorTo(0, 0)

Running == exitKind = "none"

\* The global savedSample (line 45) is never assigned: main declares a local
\* of the same name with := and passes that one around.
savedSample == Nil

(***************************************************************************)
(* main: the keyboard loop.                                                *)
(***************************************************************************)
\* The loop test off by one.
MainLoopCond_OffByOne == typedIndex <= N

\* for state.typedIndex < len(state.sample)
MainLoopCond == typedIndex < N

MainTest ==
    /\ Running /\ mainPc = "test"
    /\ IF MainLoopCond
       THEN mainPc' = "read"
       ELSE mainPc' = "update"
    /\ UNCHANGED << termVars, fileVars, typedVars, ghostIndex, ghostRow, ghostCol,
                    terminalWidth, lockHolder, inputBuf, firstTypedChar,
                    currentCharTimes, elapsed, isPB, lastKind, lastPos,
                    lastWrite, ghostVars, resizeVars, exitKind, restoreCount >>

\* os.Stdin.Read fails: readRune returns the error and main leaves the loop.
MainReadError ==
    /\ Running /\ mainPc = "read"
    /\ mainPc' = "update"
    /\ UNCHANGED << termVars, fileVars, typedVars, ghostIndex, ghostRow, ghostCol,
                    terminalWidth, lockHolder, inputBuf, firstTypedChar,
                    currentCharTimes, elapsed, isPB, lastKind, lastPos,
                    lastWrite, ghostVars, resizeVars, exitKind, restoreCount >>

\* startGhostAnimation starting the replay whether or not there is a prior
\* best.
startGhostAnimation_Always == TRUE

\* startGhostAnimation: the two replay goroutines are started if hasPb.
startGhostAnimation == hasPb

\* One pass of the loop body up to the unlock: readRune delivers byte b and
\* returns the rune r (RuneError when the bytes buffered so far do not decode,
\* and then they stay in inputBuf); stateMu.Lock(); the first-keystroke block
\* with startGhostAnimation; handleInput(r).  The read touches only inputBuf,
\* which no other goroutine sees, so it is taken together with the locked
\* part.  Indexing the sample at typedIndex = len(sample) panics,
\* and a panic in main runs its deferred term.Restore; handleCtrlC restores
\* the terminal and exits.  The typos slice can grow without limit by
\* duplicate entries: keystrokes that would add more than MaxDup are left out.
MainKeystroke ==
    /\ Running /\ mainPc = "read"
    /\ lockHolder = "none"
    /\ lockHolder' = "main"
    /\ firstTypedChar' = FALSE
    /\ IF firstTypedChar /\ startGhostAnimation
       THEN ghostPc' = "test" /\ renderPc' = "recv"
       ELSE UNCHANGED << ghostPc, renderPc >>
    /\ \E b \in NextBytes(inputBuf), ms \in 1..MaxMs :
          /\ inputBuf' = readRune(inputBuf, b).buf
          /\ IF ~InRange(typedIndex)
             THEN /\ exitKind' = "sampleIndex"
                  /\ restoreCount' = restoreCount + 1
                  /\ UNCHANGED << typedVars, currentCharTimes, lastKind,
                                  lastPos, lastWrite, mainPc, cursor >>
             ELSE LET s0 == [typedIndex |-> typedIndex, typos |-> typos,
                             typeRow |-> typeRow, typeCol |-> typeCol,
                             times |-> currentCharTimes, kind |-> "none",
                             wrote |-> -1, bad |-> FALSE, cursor |-> cursor]
                      s1 == handleInput(readRune(inputBuf, b).r, ms, s0)
                  IN  /\ Len(s1.typos) - Cardinality(Elems(s1.typos)) <= MaxDup
                      /\ typedIndex' = s1.typedIndex
                      /\ typos' = s1.typos
                      /\ typeRow' = s1.typeRow
                      /\ typeCol' = s1.typeCol
                      /\ currentCharTimes' = s1.times
                      /\ lastKind' = s1.kind
                      /\ lastPos' = typedIndex
                      /\ lastWrite' = s1.wrote
                      /\ cursor' = s1.cursor
                      /\ IF s1.bad
                         THEN /\ exitKind' = "sampleIndex"
                              /\ restoreCount' = restoreCount + 1
                              /\ UNCHANGED mainPc
                         ELSE IF s1.kind = "ctrlC"
                         THEN /\ exitKind' = "interrupt"
                              /\ restoreCount' = restoreCount + 1
                              /\ UNCHANGED mainPc
                         ELSE /\ mainPc' = "unlock"
                              /\ UNCHANGED << exitKind, restoreCount >>
    /\ UNCHANGED << savedCursor, fileVars, ghostIndex, ghostRow, ghostCol,
                    terminalWidth, elapsed, isPB, ghostI, newGhostIndex,
                    resizeVars >>

\* stateMu.Unlock(); the record of the keystroke just served ends here.
MainUnlock ==
    /\ Running /\ mainPc = "unlock"
    /\ lockHolder' = "none"
    /\ mainPc' = "test"
    /\ lastKind' = "none" /\ lastPos' = 0 /\ lastWrite' = -1
    /\ UNCHANGED << termVars, fileVars, typedVars, ghostIndex, ghostRow, ghostCol,
                    terminalWidth, inputBuf, firstTypedChar,
                    currentCharTimes, elapsed, isPB, ghostVars,
                    resizeVars, exitKind, restoreCount >>

\* elapsed := time.Since(start) and updatePersonalBest.  With no typos it dereferences the global savedSample;
\* a nil dereference panics in main, whose deferred term.Restore then runs.
UpdatePersonalBest ==
    /\ Running /\ mainPc = "update"
    /\ elapsed' \in 0..MaxElapsed
    /\ IF Len(typos) = 0
       THEN IF savedSample = Nil
            THEN /\ exitKind' = "nilDeref"
                 /\ restoreCount' = restoreCount + 1
                 /\ UNCHANGED << isPB, personalBest, charTimes, mainPc >>
            ELSE /\ isPB' = (~hasPb \/ elapsed' < personalBest)
                 /\ IF isPB'
                    THEN personalBest' = elapsed' /\ charTimes' = currentCharTimes
                    ELSE UNCHANGED << personalBest, charTimes >>
                 /\ mainPc' = "finish"
                 /\ UNCHANGED << exitKind, restoreCount >>
       ELSE /\ isPB' = FALSE
            /\ mainPc' = "finish"
            /\ UNCHANGED << personalBest, charTimes, exitKind, restoreCount >>
    /\ UNCHANGED << termVars, sample, hasPb, typedVars, ghostIndex, ghostRow, ghostCol,
                    terminalWidth, lockHolder, inputBuf, firstTypedChar,
                    currentCharTimes, lastKind, lastPos, lastWrite,
                    ghostVars, resizeVars >>

\* displayResults, saveSamples, then main returns: the deferred term.Restore.
MainReturn ==
    /\ Running /\ mainPc = "finish"
    /\ exitKind' = "normal"
    /\ restoreCount' = restoreCount + 1
    /\ UNCHANGED << termVars, fileVars, typedVars, ghostIndex, ghostRow, ghostCol,
                    terminalWidth, lockHolder, mainVars, ghostVars,
                    resizeVars >>

(***************************************************************************)
(* The replay: the goroutine of ghostAnimation sends on the unbuffered     *)
(* ghostChan, the goroutine of startGhostAnimation receives and renders.   *)
(***************************************************************************)
\* The loop test of ghostAnimation stopping one position early.
GhostLoopCond_StopsEarly == ghostIndex < N - 1

\* for state.ghostIndex < len(state.sample)
GhostLoopCond == ghostIndex < N

GhostTest ==
    /\ Running /\ ghostPc = "test"
    /\ ghostPc' = IF GhostLoopCond THEN "sleep" ELSE "close"
    /\ UNCHANGED << termVars, fileVars, typedVars, ghostIndex, ghostRow, ghostCol,
                    terminalWidth, lockHolder, mainVars, ghostI, renderPc,
                    newGhostIndex, resizeVars, exitKind, restoreCount >>

\* t := savedSamples[0].CharTimes[i]; time.Sleep(t); i++
GhostSleep ==
    /\ Running /\ ghostPc = "sleep"
    /\ IF ghostI < Len(charTimes)
       THEN ghostI' = ghostI + 1 /\ ghostPc' = "lock" /\ UNCHANGED exitKind
       ELSE exitKind' = "timesIndex" /\ UNCHANGED << ghostI, ghostPc >>
    /\ UNCHANGED << termVars, fileVars, typedVars, ghostIndex, ghostRow, ghostCol,
                    terminalWidth, lockHolder, mainVars, renderPc,
                    newGhostIndex, resizeVars, restoreCount >>

\* stateMu.Lock(); state.ghostIndex++
GhostLock ==
    /\ Running /\ ghostPc = "lock"
    /\ lockHolder = "none"
    /\ lockHolder' = "ghost"
    /\ ghostIndex' = ghostIndex + 1
    /\ ghostPc' = "send"
    /\ UNCHANGED << termVars, fileVars, typedVars, ghostRow, ghostCol, terminalWidth,
                    mainVars, ghostI, renderPc, newGhostIndex, resizeVars,
                    exitKind, restoreCount >>

\* ghostChan <- state.ghostIndex, met by the receive of the range loop.
GhostSend ==
    /\ Running /\ ghostPc = "send" /\ renderPc = "recv"
    /\ newGhostIndex' = ghostIndex
    /\ renderPc' = "paint"
    /\ ghostPc' = "unlock"
    /\ UNCHANGED << termVars, fileVars, typedVars, ghostIndex, ghostRow, ghostCol,
                    terminalWidth, lockHolder, mainVars, ghostI, resizeVars,
                    exitKind, restoreCount >>

\* ghostAnimation going round its loop without stateMu.Unlock().
GhostUnlock_Missing ==
    /\ Running /\ ghostPc = "unlock"
    /\ ghostPc' = "test"
    /\ UNCHANGED << termVars, fileVars, typedVars, ghostIndex, ghostRow,
                    ghostCol, terminalWidth, lockHolder, mainVars, ghostI,
                    renderPc, newGhostIndex, resizeVars, exitKind,
                    restoreCount >>

\* stateMu.Unlock()
GhostUnlock ==
    /\ Running /\ ghostPc = "unlock"
    /\ lockHolder' = "none"
    /\ ghostPc' = "test"
    /\ UNCHANGED << termVars, fileVars, typedVars, ghostIndex, ghostRow, ghostCol,
                    terminalWidth, mainVars, ghostI, renderPc, newGhostIndex,
                    resizeVars, exitKind, restoreCount >>

\* close(ghostChan)
GhostClose ==
    /\ Running /\ ghostPc = "close"
    /\ ghostPc' = "done"
    /\ UNCHANGED << termVars, fileVars, typedVars, ghostIndex, ghostRow, ghostCol,
                    terminalWidth, lockHolder, mainVars, ghostI, renderPc,
                    newGhostIndex, resizeVars, exitKind, restoreCount >>

\* The range loop sees the channel closed and the goroutine ends.
RenderDone ==
    /\ Running /\ renderPc = "recv" /\ ghostPc = "done"
    /\ renderPc' = "done"
    /\ UNCHANGED << termVars, fileVars, typedVars, ghostIndex, ghostRow, ghostCol,
                    terminalWidth, lockHolder, mainVars, ghostPc, ghostI,
                    newGhostIndex, resizeVars, exitKind, restoreCount >>

\* render(newGhostIndex, "ghost"), the paint: ESC 7 saves the typing
\* position, the cursor is placed at the ghost coordinate and the ghost
\* character sample[newIndex-1] is written (three Printf in a row, neither
\* under the lock).
RenderGhostPaint ==
    /\ Running /\ renderPc = "paint"
    /\ IF InRange(newGhostIndex - 1)
       THEN /\ savedCursor' = cursor
            /\ cursor' = PrintChar(CursorTo(ghostRow, ghostCol))
            /\ renderPc' = "advance"
            /\ UNCHANGED exitKind
       ELSE /\ exitKind' = "sampleIndex"
            /\ UNCHANGED << renderPc, termVars >>
    /\ UNCHANGED << fileVars, typedVars, ghostIndex, ghostRow, ghostCol,
                    terminalWidth, lockHolder, mainVars, ghostPc, ghostI,
                    newGhostIndex, resizeVars, restoreCount >>

\* render(newGhostIndex, "ghost"), the rest: ESC 8 puts the cursor back at
\* the saved position, then the coordinate update.  The saved position is
\* not read again before the next ESC 7 and is put back to its initial value.
RenderGhostAdvance ==
    /\ Running /\ renderPc = "advance"
    /\ cursor' = savedCursor
    /\ savedCursor' = CursorTo(0, 0)
    /\ IF ghostCol = terminalWidth - 1
       THEN ghostCol' = 0 /\ ghostRow' = ghostRow + 1
       ELSE ghostCol' = ghostCol + 1 /\ UNCHANGED ghostRow
    /\ renderPc' = "recv"
    /\ UNCHANGED << fileVars, typedVars, ghostIndex, terminalWidth,
                    lockHolder, mainVars, ghostPc, ghostI, newGhostIndex,
                    resizeVars, exitKind, restoreCount >>

(***************************************************************************)
(* The resize listener: SIGWINCH into sigs (capacity 1), then              *)
(* render(0, "resize").                                                    *)
(***************************************************************************)
\* A signal that finds the buffer full is dropped and changes nothing.
Sigwinch ==
    /\ Running /\ sigPending = 0
    /\ sigPending' = 1
    /\ UNCHANGED << termVars, fileVars, typedVars, ghostIndex, ghostRow, ghostCol,
                    terminalWidth, lockHolder, mainVars, ghostVars, resizePc,
                    oldTerminalWidth, exitKind, restoreCount >>

\* <-sigs
ResizeRecv ==
    /\ Running /\ resizePc = "wait" /\ sigPending = 1
    /\ sigPending' = 0
    /\ resizePc' = "lock"
    /\ UNCHANGED << termVars, fileVars, typedVars, ghostIndex, ghostRow, ghostCol,
                    terminalWidth, lockHolder, mainVars, ghostVars,
                    oldTerminalWidth, exitKind, restoreCount >>

\* stateMu.Lock(); clean and home.
ResizeLock ==
    /\ Running /\ resizePc = "lock"
    /\ lockHolder = "none"
    /\ lockHolder' = "resize"
    /\ cursor' = CursorTo(0, 0)
    /\ resizePc' = "query"
    /\ UNCHANGED << savedCursor, fileVars, typedVars, ghostIndex, ghostRow, ghostCol,
                    terminalWidth, mainVars, ghostVars, sigPending,
                    oldTerminalWidth, exitKind, restoreCount >>

\* The width getTerminalSize returns: every error path returns 0, 0, err.
getTerminalSize(ok, w) == IF ok THEN w ELSE 0

\* oldTerminalWidth := terminalWidth; _, terminalWidth, _ = getTerminalSize()
ResizeQuery ==
    /\ Running /\ resizePc = "query"
    /\ oldTerminalWidth' = terminalWidth
    /\ \E ok \in BOOLEAN, w \in Widths :
          terminalWidth' = getTerminalSize(ok, w)
    /\ resizePc' = "convert"
    /\ UNCHANGED << termVars, fileVars, typedVars, ghostIndex, ghostRow, ghostCol,
                    lockHolder, mainVars, ghostVars, sigPending, exitKind, restoreCount >>

\* The conversion computing the cell number with the new width.
resizeCoordinate_NewWidth(oldWidth, newWidth, row, col) ==
    LET cellNumber == newWidth * row + col
    IN  << cellNumber \div newWidth, cellNumber % newWidth >>

\* The conversion of one mirrored coordinate: cellNumber := old*row + col;
\* row = cellNumber / terminalWidth; col = cellNumber % terminalWidth.
resizeCoordinate(oldWidth, newWidth, row, col) ==
    LET cellNumber == oldWidth * row + col
    IN  << cellNumber \div newWidth, cellNumber % newWidth >>

\* The sample is printed again, then the two conversions, the cursor being
\* placed at the typed coordinate.  Dividing by a terminalWidth of 0 panics in the
\* listener goroutine, which ends the process without running main's defer.
ResizeConvert ==
    /\ Running /\ resizePc = "convert"
    /\ IF terminalWidth = 0
       THEN /\ exitKind' = "divideByZero"
            /\ UNCHANGED << typeRow, typeCol, ghostRow, ghostCol, resizePc,
                            cursor >>
       ELSE LET type == resizeCoordinate(oldTerminalWidth, terminalWidth,
                                         typeRow, typeCol)
                ghost == resizeCoordinate(oldTerminalWidth, terminalWidth,
                                          ghostRow, ghostCol)
            IN  /\ typeRow' = type[1] /\ typeCol' = type[2]
                /\ cursor' = CursorTo(type[1], type[2])
                /\ ghostRow' = ghost[1] /\ ghostCol' = ghost[2]
                /\ resizePc' = "unlock"
                /\ UNCHANGED exitKind
    /\ UNCHANGED << savedCursor, fileVars, typedIndex, typos, ghostIndex,
                    terminalWidth, lockHolder, mainVars, ghostVars,
                    sigPending, oldTerminalWidth, restoreCount >>

\* stateMu.Unlock(); render returns and oldTerminalWidth goes out of scope.
ResizeUnlock ==
    /\ Running /\ resizePc = "unlock"
    /\ lockHolder' = "none"
    /\ resizePc' = "wait"
    /\ oldTerminalWidth' = 0
    /\ UNCHANGED << termVars, fileVars, typedVars, ghostIndex, ghostRow, ghostCol,
                    terminalWidth, mainVars, ghostVars, sigPending, exitKind, restoreCount >>

\* The steps of main alone.
NextKeys ==
    \/ MainTest \/ MainKeystroke \/ MainReadError
    \/ MainUnlock \/ UpdatePersonalBest \/ MainReturn

Next ==
    \/ NextKeys
    \/ GhostTest \/ GhostSleep \/ GhostLock \/ GhostSend
    \/ GhostUnlock \/ GhostClose \/ RenderDone \/ RenderGhostPaint
    \/ RenderGhostAdvance
    \/ Sigwinch \/ ResizeRecv \/ ResizeLock \/ ResizeQuery \/ ResizeConvert
    \/ ResizeUnlock

\* Sessions on a short sample, with or without a prior best, with resizes.
Init == InitWith(Samples, BOOLEAN)
Spec == Init /\ [][Next]_vars

\* Sessions of the keyboard loop alone: no prior best (so no replay is
\* started) and no SIGWINCH, on the longer samples.
InitKeys == InitWith(KeySamples, {FALSE})
SpecKeys == InitKeys /\ [][NextKeys]_vars

\* Scheduling.  Every goroutine that can run is run: weak fairness of each
\* step of the program that waits for nothing outside it.  A keystroke, a
\* read error and a SIGWINCH come from outside and have no fairness.  A
\* goroutine waiting in stateMu.Lock() gets the lock although others take and
\* release it in between (sync.Mutex hands the lock to a waiter that has
\* waited long): strong fairness of the two lock steps.
Fairness ==
    /\ WF_vars(MainTest) /\ WF_vars(MainUnlock)
    /\ WF_vars(UpdatePersonalBest) /\ WF_vars(MainReturn)
    /\ WF_vars(GhostTest) /\ WF_vars(GhostSleep) /\ SF_vars(GhostLock)
    /\ WF_vars(GhostSend) /\ WF_vars(GhostUnlock) /\ WF_vars(GhostClose)
    /\ WF_vars(RenderDone) /\ WF_vars(RenderGhostPaint)
    /\ WF_vars(RenderGhostAdvance)
    /\ WF_vars(ResizeRecv) /\ SF_vars(ResizeLock) /\ WF_vars(ResizeQuery)
    /\ WF_vars(ResizeConvert) /\ WF_vars(ResizeUnlock)

SpecFair == Init /\ [][Next]_vars /\ Fairness

\* Resizes of a session at rest: main waits for a key after typedIndex
\* correct keystrokes, the replay sleeps after ghostIndex rendered ticks, no
\* resize has happened yet, and only SIGWINCH arrives.  The sample is a run
\* of MaxCells characters, so that the two coordinates range over several
\* rows of every width.
ResizeSamples == { [i \in 1..MaxCells |-> ChA] }

InitResize ==
    /\ sample \in ResizeSamples
    /\ hasPb = TRUE
    /\ charTimes = [i \in 1..Len(sample) |-> MaxMs]
    /\ personalBest = PriorBest
    /\ typedIndex \in 0..(Len(sample) - 1)
    /\ ghostIndex \in 0..(Len(sample) - 1)
    /\ typos = << >>
    /\ terminalWidth \in Widths
    /\ typeRow = typedIndex \div terminalWidth
    /\ typeCol = typedIndex % terminalWidth
    /\ ghostRow = ghostIndex \div terminalWidth
    /\ ghostCol = ghostIndex % terminalWidth
    /\ lockHolder = "none"
    /\ mainPc = "read"
    /\ inputBuf = << >>
    /\ firstTypedChar = FALSE
    /\ currentCharTimes = charTimes
    /\ elapsed = 0
    /\ isPB = FALSE
    /\ ghostPc = "sleep"
    /\ ghostI = ghostIndex
    /\ renderPc = "recv"
    /\ newGhostIndex = ghostIndex
    /\ resizePc = "wait"
    /\ sigPending = 0
    /\ oldTerminalWidth = 0
    /\ exitKind = "none"
    /\ restoreCount = 0
    /\ lastKind = "none"
    /\ lastPos = 0
    /\ lastWrite = -1
    /\ cursor = CursorTo(typeRow, typeCol)
    /\ savedCursor = CursorTo(0, 0)

NextResize ==
    \/ Sigwinch \/ ResizeRecv \/ ResizeLock \/ ResizeQuery \/ ResizeConvert
    \/ ResizeUnlock

SpecResize == InitResize /\ [][NextResize]_vars

(***************************************************************************)
(* Properties.                                                             *)
(***************************************************************************)
IsMatch(kind) == kind \in {"correct", "newlineMatch"}

\* The step is one pass of the keyboard loop body (MainKeystroke).
KeystrokeStep == mainPc = "read" /\ lockHolder' = "main"

\* The greatest j in lo..hi with j = 0 or a space at j-1.
Boundary(hi) ==
    CHOOSE j \in 0..hi :
        /\ (j = 0 \/ At(j - 1) = Space)
        /\ \A k \in (j + 1)..hi : ~(k = 0 \/ At(k - 1) = Space)

\* C1 (as claimed): in every reachable state every position in the typo set
\* is strictly less than the typed-cursor index.
C1_TyposBelowCursor == \A p \in Elems(typos) : p < typedIndex

\* C1 (amended): every position in the typo set is less than the sample
\* length, and a step only ever adds a position that is strictly less than
\* the typed-cursor index the step leaves (the erasing keystrokes lower the
\* typed-cursor and leave the typo set as it is).
C1_TyposEnterBelowCursor ==
    [][ \A p \in Elems(typos') :
            /\ p < N
            /\ (p \in Elems(typos) \/ p < typedIndex') ]_vars

\* C1 witness: after a backspace the typo set holds the position of the
\* typed-cursor.
C1_Witness == lastKind = "backspace" /\ typedIndex \in Elems(typos)

\* C2 (as claimed): when the expected character is typed at a position p that
\* is in the typo set, p is not in the typo set afterwards and the membership
\* of every other position is unchanged.
C2_SelfCorrection ==
    [][ (KeystrokeStep /\ IsMatch(lastKind') /\ typedIndex \in Elems(typos))
            => /\ typedIndex \notin Elems(typos')
               /\ \A q \in 0..(N - 1) :
                     q # typedIndex
                         => (q \in Elems(typos) <=> q \in Elems(typos')) ]_vars

\* C3 (as claimed): word-erase moves the typed-cursor from c to the greatest
\* j <= c with j = 0 or a space at j-1 (so it stays when a space precedes c).
C3_WordEraseToBoundary ==
    lastKind = "ctrlBackspace" => typedIndex = Boundary(lastPos)

\* C3 (amended): word-erase leaves the typed-cursor at 0 when it was 0, and
\* otherwise moves it from c to the greatest j < c with j = 0 or a space at
\* j-1: it always erases at least one position.
C3_WordEraseBelow ==
    lastKind = "ctrlBackspace"
        => typedIndex = IF lastPos = 0 THEN 0 ELSE Boundary(lastPos - 1)

\* C3 witness: a word-erase with a space right before the typed-cursor has
\* moved the typed-cursor.
C3_Witness ==
    /\ lastKind = "ctrlBackspace"
    /\ lastPos > 0 /\ At(lastPos - 1) = Space
    /\ typedIndex < lastPos

\* C4 (as claimed): a read that leaves an incomplete multi-byte sequence in
\* the input buffer changes neither the typed-cursor index nor the typo set.
C4_IncompleteSequenceBuffered ==
    [][ (KeystrokeStep /\ inputBuf = << >> /\ inputBuf' = << LeadByte >>)
            => (typedIndex' = typedIndex /\ typos' = typos) ]_vars

\* C5 (as claimed): at session end (updatePersonalBest has run, or has
\* panicked) the run is flagged as a personal best exactly when the typed-cursor equals the sample length,
\* the typo set is empty and either there was no prior best or the new
\* duration is strictly smaller than it.
SessionEnded == mainPc = "finish" \/ exitKind \in {"normal", "nilDeref"}

C5_PersonalBestFlag ==
    SessionEnded
        => (isPB <=> /\ typedIndex = N
                     /\ Elems(typos) = {}
                     /\ (~hasPb \/ elapsed < PriorBest))

\* C6 (as claimed): a failed terminal-geometry query during a resize leaves a
\* positive terminal width and does not end the session.
C6_ResizeSurvivesFailedQuery ==
    terminalWidth > 0 /\ exitKind # "divideByZero"

\* C7 (as claimed): whenever the process has ended, terminal mode has been
\* restored exactly once.
C7_RestoredExactlyOnce == exitKind # "none" => restoreCount = 1

\* C8 (as claimed): whoever is about to read or write the typed-cursor, the
\* ghost-cursor or the typo set holds the state lock; the reads are the loop
\* test of main, the loop test of ghostAnimation and the typo check of
\* updatePersonalBest.
C8_AccessUnderLock ==
    Running
        => /\ (mainPc \in {"test", "update"} => lockHolder = "main")
           /\ (ghostPc = "test" => lockHolder = "ghost")

\* C9: a keystroke that completes position i by a match writes the timing
\* buffer at i if and only if the typo set is empty once i has been removed
\* from it, and writes nowhere else; no other keystroke writes the buffer.
C9_TimingRecorded ==
    /\ IsMatch(lastKind)
          => /\ lastWrite \in {-1, lastPos}
             /\ (lastWrite = lastPos <=> Elems(typos) = {})
             /\ (lastWrite = lastPos => currentCharTimes[lastPos + 1] \in 1..MaxMs)
    /\ ~IsMatch(lastKind) => lastWrite = -1

\* C9 witness: a match at a position behind an outstanding typo has recorded
\* nothing.
C9_Witness ==
    /\ lastKind = "newlineMatch"
    /\ typos # << >>
    /\ lastWrite = -1

\* C10: the typed-cursor index and the ghost-cursor index are in
\* 0..len(sample), and no access to the sample is out of range.
C10_IndicesInRange ==
    /\ typedIndex \in 0..N
    /\ ghostIndex \in 0..N
    /\ exitKind # "sampleIndex"

\* C10 witness: both cursors have reached the end of the sample.
C10_Witness == typedIndex = N /\ ghostIndex = N /\ renderPc = "done"

IsMismatch(kind) == kind \in {"typo", "newlineTypo"}

\* C11: every keystroke classified as a mismatch (handleTypo, which also
\* serves an undecodable byte, and the mismatch branch of handleNewLine)
\* leaves the position it was typed at in the typo set and advances the
\* typed-cursor by exactly one.
C11_MismatchAdvances ==
    IsMismatch(lastKind)
        => /\ lastPos \in Elems(typos)
           /\ typedIndex = lastPos + 1

\* C11 witness: a line terminator typed where the sample expects another
\* character has been served.
C11_Witness ==
    /\ lastKind = "newlineTypo"
    /\ At(lastPos) # KeyLF
    /\ typedIndex = lastPos + 1

IsErase(kind) == kind \in {"backspace", "ctrlBackspace", "ctrlShiftBackspace"}

\* C12: a step decreases the typed-cursor only if it serves a backspace, a
\* word-erase or a full-erase; every other keystroke leaves the typed-cursor
\* unchanged or increases it by exactly one; the steps of the replay and of
\* the resize handling (every step that is not a keystroke) leave it
\* unchanged.
C12_CursorMoves ==
    [][ /\ typedIndex' < typedIndex => (KeystrokeStep /\ IsErase(lastKind'))
        /\ (KeystrokeStep /\ ~IsErase(lastKind'))
               => typedIndex' \in {typedIndex, typedIndex + 1}
        /\ ~KeystrokeStep => typedIndex' = typedIndex ]_vars

\* C12 witness: a full-erase has lowered the typed-cursor in a session whose
\* replay has ticked.
C12_Witness ==
    /\ lastKind = "ctrlShiftBackspace"
    /\ typedIndex < lastPos
    /\ ghostIndex > 0

ReplayIdle == ghostPc = "idle" /\ renderPc = "idle" /\ ghostIndex = 0

\* C13: the replay is started at most once, only by the step that serves the
\* first keystroke of the session and only if there is a prior best (the
\* recorded timing is non-empty): the ghost-cursor index is 0 and the replay
\* is not running as long as no keystroke has been read, and for the whole
\* session when there is no prior best; once started the replay is never
\* started again.
C13_ReplayStartedOnce ==
    [][ /\ (firstTypedChar \/ ~hasPb) => ReplayIdle
        /\ (firstTypedChar' \/ ~hasPb) => ReplayIdle'
        /\ (ghostPc = "idle" /\ ghostPc' # "idle")
               => (KeystrokeStep /\ firstTypedChar /\ hasPb)
        /\ ghostPc # "idle" => ghostPc' # "idle"
        /\ (KeystrokeStep /\ ~firstTypedChar)
               => (ghostPc' = ghostPc /\ renderPc' = renderPc) ]_vars

\* C13 witness: the first keystroke has just been served and has started the
\* replay, which has not ticked yet.
C13_Witness ==
    /\ hasPb /\ ~firstTypedChar
    /\ lockHolder = "main" /\ lastKind # "none"
    /\ ghostPc = "test" /\ renderPc = "recv" /\ ghostIndex = 0

ConvertStep == resizePc = "convert" /\ resizePc' = "unlock"

\* C15: the resize conversion preserves the linear cell offset.  A
\* conversion step from the old width W1 > 0 to the new width W2 > 0 yields,
\* for the typed and for the ghost coordinate, (row', col') with
\* row'*W2 + col' = row*W1 + col and 0 <= col' < W2; after any chain of
\* conversions the coordinate is what the direct conversion of the initial
\* coordinate (at offset typedIndex, resp. ghostIndex) to the last width
\* gives; and width 80 to 40 takes row 0, column 75 to row 1, column 35.
C15_ResizePreservesOffset ==
    [][ ConvertStep
          => /\ oldTerminalWidth > 0 /\ terminalWidth > 0
             /\ typeRow' * terminalWidth + typeCol'
                    = typeRow * oldTerminalWidth + typeCol
             /\ ghostRow' * terminalWidth + ghostCol'
                    = ghostRow * oldTerminalWidth + ghostCol
             /\ typeCol' \in 0..(terminalWidth - 1)
             /\ ghostCol' \in 0..(terminalWidth - 1)
             /\ << typeRow', typeCol' >>
                    = << typedIndex \div terminalWidth,
                         typedIndex % terminalWidth >>
             /\ << ghostRow', ghostCol' >>
                    = << ghostIndex \div terminalWidth,
                         ghostIndex % terminalWidth >>
             /\ resizeCoordinate(80, 40, 0, 75) = << 1, 35 >> ]_vars

\* C15 witness: a conversion from width 2 to width 1 has moved the typed
\* coordinate from row 1, column 1 to row 3, column 0.
C15_Witness ==
    /\ resizePc = "unlock"
    /\ oldTerminalWidth = 2 /\ terminalWidth = 1
    /\ typedIndex = 3 /\ typeRow = 3 /\ typeCol = 0
    /\ ghostIndex = 1

NoRenderInProgress ==
    /\ renderPc \in {"idle", "recv", "done"}
    /\ resizePc \in {"wait", "lock"}

\* C16 (as claimed): once no render is in progress (the render goroutine
\* waits for the next tick or has ended, and no resize is being handled),
\* ghostRow*terminalWidth + ghostCol equals the number of ghost-advance
\* events rendered so far (the last index received, newGhostIndex) and
\* ghostCol < terminalWidth.
C16_GhostCoordinateIntact ==
    (Running /\ NoRenderInProgress)
        => /\ ghostRow * terminalWidth + ghostCol = newGhostIndex
           /\ ghostCol < terminalWidth

\* C18: whenever the state lock is free and the terminal width W is
\* positive, typeRow*W + typeCol equals the typed-cursor index and
\* 0 <= typeCol < W.
C18_TypedCoordinateDerived ==
    (lockHolder = "none" /\ terminalWidth > 0)
        => /\ typeRow * terminalWidth + typeCol = typedIndex
           /\ typeCol \in 0..(terminalWidth - 1)

\* C18 witness: the lock is free and the typed coordinate stands in column 0
\* of the second row of a terminal of width 2, two positions typed.
C18_Witness ==
    /\ lockHolder = "none" /\ mainPc = "test"
    /\ terminalWidth = 2
    /\ typedIndex = 2 /\ typeRow = 1 /\ typeCol = 0

LoopEnded == mainPc \in {"update", "finish"} \/ exitKind \in {"normal", "nilDeref"}

\* C20 (as claimed): whenever the keyboard loop has ended with the
\* typed-cursor at the sample length and an empty typo set, every position
\* of the sample has had a duration recorded into the timing buffer during
\* this run.  Without a prior best the buffer starts as zeros and a recorded
\* duration is at least 1, so a slot that is still 0 was never recorded.
C20_EverySlotRecorded ==
    (~hasPb /\ LoopEnded /\ typedIndex = N /\ typos = << >>)
        => \A i \in 1..N : currentCharTimes[i] \in 1..MaxMs

GhostPaintInProgress == renderPc = "advance"

TypedPaintStep ==
    /\ KeystrokeStep
    /\ IsMatch(lastKind') \/ IsMismatch(lastKind') \/ typedIndex' < typedIndex

CursorAtTyped ==
    (Running /\ ~GhostPaintInProgress /\ resizePc \in {"wait", "lock"})
        => cursor = << typeRow, typeCol >>

\* C17 (as claimed): no typed-character paint is emitted between the
\* cursor-save and the cursor-restore of a ghost paint, and whenever no ghost
\* paint is in progress (and no resize is being handled) the terminal's
\* cursor is at the typed mirrored coordinate.
C17_GhostPaintUndisturbed ==
    [][ /\ GhostPaintInProgress => ~TypedPaintStep
        /\ CursorAtTyped' ]_vars

\* The replay has been started.
ReplayStarted == ghostPc # "idle"

\* The replay has ended: the ghost-cursor is at the sample length and
\* ghostAnimation has closed the channel and returned.
ReplayEnded == ghostIndex = N /\ ghostPc = "done"

\* C14: once started (with one recorded duration per sample position) the
\* replay takes the durations in order, one per position: at the loop test
\* it has consumed as many as the ghost-cursor index, and it leaves the loop
\* only with the ghost-cursor at the sample length; under fair scheduling,
\* whatever the keystrokes and the typed-cursor, it ends with the
\* ghost-cursor at the sample length unless the process exits first.
C14_ReplayRunsToEnd ==
    /\ [](ghostPc \in {"test", "sleep"} => ghostI = ghostIndex)
    /\ [](ghostPc \in {"close", "done"} => ghostIndex = N)
    /\ ReplayStarted ~> (ReplayEnded \/ ~Running)

\* C14 witness: the replay has ended while main still waits for the second
\* key.
C14_Witness ==
    /\ Running /\ ReplayEnded /\ renderPc = "done"
    /\ mainPc = "read" /\ typedIndex = 1

\* A goroutine waits for the lock, or at the channel.
Waiting ==
    \/ ghostPc \in {"lock", "send"}
    \/ resizePc = "lock"
    \/ renderPc = "recv"

\* A step of the program that needs no key and no signal is possible.
CanProceed ==
    ENABLED (\/ MainTest \/ MainUnlock \/ UpdatePersonalBest \/ MainReturn
             \/ GhostTest \/ GhostSleep \/ GhostLock \/ GhostSend
             \/ GhostUnlock \/ GhostClose \/ RenderDone \/ RenderGhostPaint
             \/ RenderGhostAdvance \/ ResizeRecv \/ ResizeLock
             \/ ResizeQuery \/ ResizeConvert \/ ResizeUnlock)

\* C19: the lock/channel protocol is deadlock-free.  While the process runs,
\* whenever the lock is held or a goroutine waits for the lock or at the
\* channel, some goroutine can take a step; and under fair scheduling every
\* acquisition of the lock is followed by its release unless the process
\* exits.
C19_DeadlockFree ==
    /\ []((Running /\ (lockHolder # "none" \/ Waiting)) => CanProceed)
    /\ (lockHolder # "none") ~> (lockHolder = "none" \/ ~Running)

\* C19 witness: the replay holds the lock and waits at the send while the
\* render goroutine is still painting the previous tick and the resize
\* handler waits for the lock.
C19_Witness ==
    /\ Running
    /\ lockHolder = "ghost" /\ ghostPc = "send"
    /\ renderPc = "advance"
    /\ resizePc = "lock"

=============================================================================
